---- MODULE Spec2Model ----
(***************************************************************************)
(* Model of the fallible Vec operations of fallible_vec (src/src/lib.rs,   *)
(* src/src/collect.rs, src/src/set_len_on_drop.rs).                        *)
(*                                                                         *)
(* A Vec is its backing storage `mem` (slots 0..MaxCap-1), its `len` and   *)
(* its `cap`.  Every element is an object [id, val]: the id tells objects  *)
(* apart (so that a bitwise copy left behind by ptr::copy, or a destroyed  *)
(* value, can be recognised), val is what Clone preserves.  dropCount      *)
(* counts how often each object was destroyed.                             *)
(*                                                                         *)
(* An operation that runs caller-supplied code (next, clone, the generator *)
(* of try_resize_with) is a sequence of steps, one per loop iteration; pc  *)
(* is the position in the running operation.  The caller can look at the   *)
(* Vec when a call has returned (pc = "returned": after Ok, after an       *)
(* AllocationError, or after a panic has unwound) and from then on until   *)
(* the next call (pc = "idle").  The history variables describe the call   *)
(* that has just returned.  When the caller moves on (Observe) they are    *)
(* forgotten and the state is replaced by its canonical representative:    *)
(* the operations are generic in T and never compare or inspect elements,  *)
(* so the visible elements are renamed 1..len, and what lies beyond len    *)
(* (stale copies, destroyed or leaked values) is memory no operation reads *)
(* before writing it, the same as uninitialised memory.                    *)
(***************************************************************************)
EXTENDS Integers, Sequences, FiniteSets, TLC

\* ---------------------------------------------------------------- bounds
\* Slots the allocator can hand out for one Vec; a larger request fails.
MaxCap == 6
\* Length of the Vec the behaviour starts from.
MaxInit == 3
\* Elements one caller-supplied source (iterator, slice) can hold.
MaxIter == 3
\* Objects alive or created during one call: the elements of the Vec, the
\* argument itself (the item, the slice, the iterator, the generator) and
\* every element it supplies.  Enough for every call the other bounds allow.
MaxIds == MaxCap + MaxIter + 1
\* usize::MAX: sizes, indices and counts are integers modulo MaxUsize + 1.
MaxUsize == 31

\* isize::MAX, the largest byte size of an allocation.
MaxIsize == MaxUsize \div 2
\* size_of::<T>(), in bytes.
ElemSize == 2

\* Vec's smallest non-zero capacity for elements of 2..1024 bytes (the
\* growth policy behind Vec::try_reserve, the std call every reserving
\* operation starts with).
MinNonZeroCap == 4

Max(a, b) == IF a >= b THEN a ELSE b
\* a - b in usize arithmetic without overflow checks (release builds).
wrapping_sub(a, b) == (a - b) % (MaxUsize + 1)
Min(a, b) == IF a <= b THEN a ELSE b

\* ---------------------------------------------------------------- elements
Uninit == [id |-> 0, val |-> 0]
Elem(i, v) == [id |-> i, val |-> v]
\* T::clone: a new object with the same value.
clone(x, fresh) == [id |-> fresh, val |-> x.val]

\* ---------------------------------------------------------------- Vec
Slots == 0..(MaxCap - 1)
NewVec == [mem |-> [i \in Slots |-> Uninit], len |-> 0, cap |-> 0]

Slot(v, i) == IF i \in Slots THEN v.mem[i] ELSE Uninit
\* The elements the caller can see: slots [0, len).
View(v) == [i \in 1..v.len |-> Slot(v, i - 1)]
\* Slots [a, b) as a sequence.
Range(v, a, b) == [i \in 1..(IF b > a THEN b - a ELSE 0) |-> Slot(v, a + i - 1)]

\* A write that always lands in the first slot (the offset is dropped).
write_first_slot(v, i, x) ==
    [v EXCEPT !.mem = [j \in Slots |-> IF j = 0 THEN x ELSE v.mem[j]]]

\* A write that lands one slot past the offset it was given.
write_next_slot(v, i, x) ==
    [v EXCEPT !.mem = [j \in Slots |-> IF j = i + 1 THEN x ELSE v.mem[j]]]

\* ptr.add(i).write(x)
write(v, i, x) == [v EXCEPT !.mem = [j \in Slots |-> IF j = i THEN x ELSE v.mem[j]]]
\* Vec::set_len
set_len(v, n) == [v EXCEPT !.len = n]
\* A copy that runs forward slot by slot (copy_nonoverlapping used on
\* overlapping ranges): the source is overwritten before it is read.
RECURSIVE copy_forward(_, _, _, _, _)
copy_forward(mem, src, dst, count, k) ==
    IF k >= count THEN mem
    ELSE copy_forward([j \in Slots |-> IF j = dst + k /\ src + k \in Slots
                                       THEN mem[src + k] ELSE mem[j]],
                      src, dst, count, k + 1)
ptr_copy_nonoverlapping(v, src, dst, count) ==
    [v EXCEPT !.mem = copy_forward(v.mem, src, dst, count, 0)]

\* core::ptr::copy(src, dst, count): a memmove, correct for overlapping ranges.
ptr_copy(v, src, dst, count) ==
    [v EXCEPT !.mem = [j \in Slots |->
        IF j >= dst /\ j < dst + count THEN Slot(v, src + (j - dst)) ELSE v.mem[j]]]

\* A reserve that reports success without growing the allocation.
try_reserve_no_growth(v, additional, ok) == [ok |-> TRUE, vec |-> v]

\* A reserve that computes sizes in wrapping arithmetic: len + additional
\* modulo usize, bytes modulo usize.
try_reserve_wrapping(v, additional, ok) ==
    IF v.cap - v.len >= additional
    THEN [ok |-> TRUE, vec |-> v]
    ELSE LET required == (v.len + additional) % (MaxUsize + 1)
             newcap == Max(Max(2 * v.cap, required), MinNonZeroCap)
         IN IF ok /\ newcap <= MaxCap
            THEN [ok |-> TRUE, vec |-> [v EXCEPT !.cap = newcap]]
            ELSE [ok |-> FALSE, vec |-> v]

\* A reserve that goes to the allocator even when the spare capacity
\* already holds what is asked.
try_reserve_always_asks(v, additional, ok) ==
    LET required == v.len + additional
        newcap == IF v.cap - v.len >= additional THEN v.cap
                  ELSE Max(Max(2 * v.cap, required), MinNonZeroCap)
    IN IF ok /\ newcap <= MaxCap /\ required <= MaxUsize
          /\ newcap * ElemSize <= MaxIsize
       THEN [ok |-> TRUE, vec |-> [v EXCEPT !.cap = newcap]]
       ELSE [ok |-> FALSE, vec |-> v]

\* Vec::try_reserve(additional) against an allocator that answers `ok`:
\* nothing to do when the spare capacity suffices, otherwise the amortised
\* growth of std (double, or what is required if that is more).  A
\* len + additional beyond usize::MAX (checked_add) and a byte size beyond
\* isize::MAX (Layout::array) are errors (CapacityOverflow) before the
\* allocator is asked.  The result is [ok, vec]; len is never touched.
try_reserve(v, additional, ok) ==
    IF v.cap - v.len >= additional
    THEN [ok |-> TRUE, vec |-> v]
    ELSE LET required == v.len + additional
             newcap == Max(Max(2 * v.cap, required), MinNonZeroCap)
         IN IF required > MaxUsize \/ newcap * ElemSize > MaxIsize
            THEN [ok |-> FALSE, vec |-> v]
            ELSE IF ok /\ newcap <= MaxCap
            THEN [ok |-> TRUE, vec |-> [v EXCEPT !.cap = newcap]]
            ELSE [ok |-> FALSE, vec |-> v]

\* 1 when Vec::try_reserve(additional) fails on v, 0 when it succeeds.
Refused(v, additional, ok) == IF try_reserve(v, additional, ok).ok THEN 0 ELSE 1

\* A move_tail that leaves the last element of the tail behind.
move_tail_short(v, index, by, ok) ==
    LET r == try_reserve(v, by, ok)
    IN IF r.ok
       THEN [ok |-> TRUE,
             vec |-> ptr_copy(r.vec, index, index + by, r.vec.len - index - 1)]
       ELSE [ok |-> FALSE, vec |-> v]

\* A move_tail that shifts the tail before it knows the reserve succeeded.
move_tail_copy_first(v, index, by, ok) ==
    LET r == try_reserve(v, by, ok)
    IN [ok |-> r.ok, vec |-> ptr_copy(r.vec, index, index + by, r.vec.len - index)]

\* A move_tail that reserves one slot more than it was asked for.
move_tail_reserve_extra(v, index, by, ok) ==
    LET r == try_reserve(v, by + 1, ok)
    IN IF r.ok
       THEN [ok |-> TRUE, vec |-> ptr_copy(r.vec, index, index + by, r.vec.len - index)]
       ELSE [ok |-> FALSE, vec |-> v]

\* move_tail(vec, index, by): reserve `by`, then shift [index, len) up by
\* `by` slots.  len is left alone.
move_tail(v, index, by, ok) ==
    LET r == try_reserve(v, by, ok)
    IN IF r.ok
       THEN [ok |-> TRUE, vec |-> ptr_copy(r.vec, index, index + by, r.vec.len - index)]
       ELSE [ok |-> FALSE, vec |-> v]

\* A try_push that writes the item but forgets set_len.
try_push_no_set_len(v, x, ok) ==
    LET r == try_reserve(v, 1, ok)
    IN IF r.ok
       THEN [ok |-> TRUE, vec |-> write(r.vec, r.vec.len, x), drops |-> <<>>]
       ELSE [ok |-> FALSE, vec |-> v, drops |-> <<x>>]

\* A try_push that stores the item before it knows the reserve succeeded.
try_push_write_first(v, x, ok) ==
    LET r == try_reserve(v, 1, ok)
        w == write(r.vec, r.vec.len, x)
    IN IF r.ok
       THEN [ok |-> TRUE, vec |-> set_len(w, w.len + 1), drops |-> <<>>]
       ELSE [ok |-> FALSE, vec |-> w, drops |-> <<x>>]

\* A try_push that counts the item without storing it.
try_push_skip_write(v, x, ok) ==
    LET r == try_reserve(v, 1, ok)
    IN IF r.ok
       THEN [ok |-> TRUE, vec |-> set_len(r.vec, r.vec.len + 1), drops |-> <<>>]
       ELSE [ok |-> FALSE, vec |-> v, drops |-> <<x>>]

\* A try_push that drops the error of a failed reserve and reports Ok.
try_push_swallow_error(v, x, ok) ==
    LET r == try_reserve(v, 1, ok)
    IN IF r.ok
       THEN [ok |-> TRUE, vec |-> set_len(write(r.vec, r.vec.len, x), r.vec.len + 1),
             drops |-> <<>>]
       ELSE [ok |-> TRUE, vec |-> v, drops |-> <<x>>]

\* A try_push that forgets the item when the reserve fails: it is neither
\* stored nor destroyed.
try_push_leak_item(v, x, ok) ==
    LET r == try_reserve(v, 1, ok)
    IN IF r.ok
       THEN [ok |-> TRUE, vec |-> set_len(write(r.vec, r.vec.len, x), r.vec.len + 1),
             drops |-> <<>>]
       ELSE [ok |-> FALSE, vec |-> v, drops |-> <<>>]

\* try_push: reserve one slot, write the item at len, len + 1.  On failure
\* the item, owned by the callee, is destroyed on return.
try_push(v, x, ok) ==
    LET r == try_reserve(v, 1, ok)
    IN IF r.ok
       THEN [ok |-> TRUE, vec |-> set_len(write(r.vec, r.vec.len, x), r.vec.len + 1),
             drops |-> <<>>]
       ELSE [ok |-> FALSE, vec |-> v, drops |-> <<x>>]

\* A try_insert that reserves the slot but does not shift the tail.
try_insert_no_shift(v, index, x, ok) ==
    LET r == try_reserve(v, 1, ok)
    IN IF r.ok
       THEN [ok |-> TRUE, vec |-> set_len(write(r.vec, index, x), r.vec.len + 1),
             drops |-> <<>>]
       ELSE [ok |-> FALSE, vec |-> v, drops |-> <<x>>]

\* try_insert for index <= len: move_tail by one, write at index, len + 1.
try_insert(v, index, x, ok) ==
    LET r == move_tail(v, index, 1, ok)
    IN IF r.ok
       THEN [ok |-> TRUE, vec |-> set_len(write(r.vec, index, x), r.vec.len + 1),
             drops |-> <<>>]
       ELSE [ok |-> FALSE, vec |-> v, drops |-> <<x>>]

\* A truncate that only lowers len (set_len): the cut elements leak.
truncate_set_len(v, n) == [vec |-> set_len(v, n), drops |-> <<>>]

\* Vec::truncate(n) for n <= len: [n, len) is destroyed.
truncate(v, n) == [vec |-> set_len(v, n), drops |-> Range(v, n, v.len)]

\* A drain that destroys the range but does not move the tail down.
drain_no_move(v, a, b) ==
    [vec |-> set_len(v, v.len - (b - a)), drops |-> Range(v, a, b)]

\* Vec::drain(a..b) run to completion: [a, b) is destroyed and the tail
\* [b, len) moves down to a.
drain(v, a, b) ==
    [vec |-> set_len(ptr_copy(v, b, a, v.len - b), v.len - (b - a)),
     drops |-> Range(v, a, b)]

\* A Vec that is forgotten instead of dropped.
drop_vec_leak(v) == <<>>

\* A Vec whose elements are destroyed by hand and again by its drop.
drop_vec_twice(v) == View(v) \o View(v)

\* Dropping a Vec destroys the elements in [0, len).
drop_vec(v) == View(v)

\* An assignment that lands one slot too far.
assign_next_slot(v, i, x) == [vec |-> write(v, i + 1, x), drops |-> <<Slot(v, i + 1)>>]

\* An assignment that overwrites the old value without destroying it.
assign_forget_old(v, i, x) == [vec |-> write(v, i, x), drops |-> <<>>]

\* self[index] = item: the old value is destroyed, the new one stored.
assign(v, i, x) == [vec |-> write(v, i, x), drops |-> <<Slot(v, i)>>]

\* ---------------------------------------------------------------- sources
\* Caller-supplied code: an iterator that yields `total` elements, a
\* generator, or Clone::clone.  Its panicAt-th call panics (0: never).
Source(total, panicAt) == [total |-> total, calls |-> 0, panicAt |-> panicAt]
NoSource == Source(0, 0)
Panics(s) == s.calls + 1 = s.panicAt
Exhausted(s) == s.calls >= s.total
Advance(s) == [s EXCEPT !.calls = s.calls + 1]
Remaining(s) == IF s.total > s.calls THEN s.total - s.calls ELSE 0

\* ---------------------------------------------------------------- drops
Ids == 0..MaxIds
\* dc with every element of the sequence s destroyed once more (counts
\* stop at 2: "more than once").
Destroy(dc, s) ==
    [i \in Ids |-> Min(2, dc[i] + Cardinality({k \in DOMAIN s : s[k].id = i}))]

\* ---------------------------------------------------------------- state
VARIABLES
    vec,            \* self: [mem, len, cap]
    dropCount,      \* object id -> times destroyed
    nextId,         \* id of the next object the caller creates
    pc,             \* position in the running operation; "returned", "idle"
    cur,            \* the Vec try_extend works on: "self" or "rem"
    remainder,      \* try_splice_in: the Vec try_collect_in builds
    index,          \* try_splice_in: index
    range_end,      \* try_splice_in: end
    lower_bound,    \* try_splice_in: lower_bound
    after_splice,   \* try_splice_in: after_splice
    local_len,      \* SetLenOnDrop.local_len of the live guard
    new_len,        \* try_resize / try_resize_with: new_len
    item,           \* try_resize: item
    slice,          \* try_extend_from_slice: slice; try_splice_in: the elements copied
    source,         \* the caller-supplied code: iterator, generator or clone
    call,           \* history: the call and the Vec it started from
    supplied,       \* history: the values the caller supplied to the call so far
    result,         \* history: "ok", "err" (AllocationError), "panic"; "running"
    site            \* history: where the call ended

locals == <<cur, remainder, index, range_end, lower_bound, after_splice, local_len,
            new_len, item, slice, source>>
history == <<call, supplied, result, site>>
vars == <<vec, dropCount, nextId, pc, locals, history>>

Target == IF cur = "self" THEN vec ELSE remainder

\* The record of a call: op, the visible elements B and the capacity it
\* started from, its range or index arguments, the lower bound its source
\* k (the k-th call of its caller-supplied code panics; 0: none does), the
\* slice or item it was given, the lower bound its source reported to
\* try_splice_in (-1: not asked), the calls it stands for, the id of its
\* argument, (try_push, try_insert) what the allocator would answer to its
\* reserve, the number of elements its source holds (-1: no source) and the
\* lower bound the source reported to try_extend (-1: not asked), the form
\* of the range it was given if that range was rejected, and (try_push) the size try_with_capacity was
\* called with when the pushes follow it directly (-1: they do not), and
\* the number of its reserve requests that failed.
Call(op, start, end, k, arg) ==
    [op |-> op, B |-> View(vec), cap |-> vec.cap, start |-> start, end |-> end,
     k |-> k, arg |-> arg, lb |-> -1, n |-> 1, id |-> nextId, ok |-> TRUE,
     total |-> -1, low_bound |-> -1, form |-> "", size |-> -1, refused |-> 0]

\* The initial Vec: try_vec![x1, .., xn] (Box<[T; n]>::into_vec, so that
\* capacity = length), or Vec::new() for n = 0.
InitVec(n) ==
    [mem |-> [i \in Slots |-> IF i < n THEN Elem(i + 1, i + 1) ELSE Uninit],
     len |-> n, cap |-> n]

Init ==
    /\ \E n \in 0..MaxInit :
          /\ vec = InitVec(n)
          /\ nextId = n + 1
          /\ call = [op |-> "try_vec", B |-> <<>>, cap |-> 0, start |-> 0, end |-> 0,
                     k |-> 0, arg |-> <<>>, lb |-> -1, n |-> 1, id |-> 0,
                     ok |-> TRUE, total |-> -1, low_bound |-> -1, form |-> "",
                     size |-> -1, refused |-> 0]
          /\ supplied = [i \in 1..n |-> Elem(i, i)]
    /\ dropCount = [i \in Ids |-> 0]
    /\ pc = "returned"
    /\ cur = "self"
    /\ remainder = NewVec
    /\ index = 0
    /\ range_end = 0
    /\ lower_bound = 0
    /\ after_splice = 0
    /\ local_len = 0
    /\ new_len = 0
    /\ item = Uninit
    /\ slice = <<>>
    /\ source = NoSource
    /\ result = "ok"
    /\ site = "return"

\* The frame of the operation is gone.
ClearLocals ==
    /\ cur' = "self"
    /\ remainder' = NewVec
    /\ index' = 0
    /\ range_end' = 0
    /\ lower_bound' = 0
    /\ after_splice' = 0
    /\ local_len' = 0
    /\ new_len' = 0
    /\ item' = Uninit
    /\ slice' = <<>>
    /\ source' = NoSource

\* The operation ends at `where` with `res`, leaving self as v and having
\* destroyed `drops` on the way out (by return or by unwinding).
Finish(res, where, v, drops) ==
    /\ vec' = v
    /\ dropCount' = Destroy(dropCount, drops)
    /\ pc' = "returned"
    /\ result' = res
    /\ site' = where
    /\ ClearLocals

\* The operation starts: what it was called with.
Begin(c, args) ==
    /\ call' = c
    /\ supplied' = args

\* The operation goes on running caller-supplied code.
Running ==
    /\ result' = "running"
    /\ site' = ""

\* The caller has seen the outcome and moves on.
NoCall ==
    [op |-> "none", B |-> <<>>, cap |-> 0, start |-> 0, end |-> 0,
     k |-> 0, arg |-> <<>>, lb |-> -1, n |-> 0, id |-> 0, ok |-> TRUE,
     total |-> -1, low_bound |-> -1, form |-> "", size |-> -1, refused |-> 0]

Observe ==
    /\ pc = "returned"
    /\ pc' = "idle"
    /\ vec' = [mem |-> [i \in Slots |-> IF i < vec.len THEN Elem(i + 1, i + 1)
                                         ELSE Uninit],
               len |-> vec.len, cap |-> vec.cap]
    /\ dropCount' = [i \in Ids |-> 0]
    /\ nextId' = vec.len + 1
    /\ call' = NoCall
    /\ supplied' = <<>>
    /\ result' = "none"
    /\ site' = ""
    /\ UNCHANGED locals

\* ids the caller may still create
Budget == MaxIds + 1 - nextId

\* ------------------------------------------------------------ try_push
\* lib.rs 305-312.  Consecutive successful calls are recorded as one run:
\* call.B is the Vec before the first, supplied the items pushed since.
\* A run that starts right after a successful try_with_capacity(size)
\* remembers size, and a push that fails in such a run its place in it.
TryPush ==
    /\ \/ pc = "idle"
       \/ pc = "returned" /\ call.op = "try_push" /\ result = "ok"
       \/ pc = "returned" /\ call.op = "try_with_capacity" /\ result = "ok"
    /\ Budget >= 1
    /\ \E ok \in BOOLEAN :
          LET x == Elem(nextId, nextId)
              r == try_push(vec, x, ok)
              inRun == call.op = "try_push" /\ result = "ok"
              size == IF call.op = "try_with_capacity" THEN call.start
                      ELSE IF inRun THEN call.size ELSE -1
              nth == IF inRun /\ size >= 0 THEN call.n + 1 ELSE 1
          IN /\ Begin(IF inRun /\ r.ok
                      THEN [call EXCEPT !.n = call.n + 1, !.ok = ok,
                                        !.refused = Refused(vec, 1, ok)]
                      ELSE [Call("try_push", 0, 0, 0, <<x>>)
                               EXCEPT !.ok = ok, !.size = size, !.n = nth,
                                      !.refused = Refused(vec, 1, ok)],
                      IF inRun /\ r.ok THEN Append(supplied, x) ELSE <<x>>)
             /\ Finish(IF r.ok THEN "ok" ELSE "err", "try_reserve", r.vec, r.drops)
    /\ nextId' = nextId + 1

\* ----------------------------------------------------- try_with_capacity
\* lib.rs 624-631 and 669-673: Vec::new_in(alloc), then try_reserve(size).
try_with_capacity(size, ok) == try_reserve(NewVec, size, ok)

\* On Ok the caller goes on with the new Vec in place of the one it had,
\* which it drops; on failure it keeps what it had.
TryWithCapacity ==
    /\ pc = "idle"
    /\ \E size \in (0..MaxCap + 1) \cup {MaxIsize \div ElemSize + 1, MaxUsize},
          ok \in BOOLEAN :
          LET r == try_with_capacity(size, ok)
          IN /\ Begin([Call("try_with_capacity", size, size, 0, <<>>)
                          EXCEPT !.ok = ok, !.refused = Refused(NewVec, size, ok)],
                      <<>>)
             /\ IF r.ok
                THEN Finish("ok", "return", r.vec, drop_vec(vec))
                ELSE Finish("err", "try_reserve", vec, <<>>)
    /\ UNCHANGED nextId

\* ------------------------------------------------------------ try_insert
\* lib.rs 314-321, index <= len.
TryInsert ==
    /\ pc = "idle"
    /\ Budget >= 1
    /\ \E i \in 0..vec.len, ok \in BOOLEAN :
          LET x == Elem(nextId, nextId)
              r == try_insert(vec, i, x, ok)
          IN /\ Begin([Call("try_insert", i, i, 0, <<x>>)
                          EXCEPT !.ok = ok, !.refused = Refused(vec, 1, ok)], <<x>>)
             /\ Finish(IF r.ok THEN "ok" ELSE "err", "move_tail", r.vec, r.drops)
    /\ nextId' = nextId + 1

\* ------------------------------------------------------------ try_extend
\* lib.rs 278-286, and collect.rs 54-58 (try_collect_in: Vec::new_in, then
\* try_extend) when called by try_splice_in.

\* The lower bounds size_hint may report: any under-estimate of what the
\* source still holds, the exact count, (a source that breaks the Iterator
\* contract) one more, or usize::MAX (an endless source).
Hints(s) == (0..(Remaining(s) + 1)) \cup {MaxUsize}

SetTarget(v) ==
    IF cur = "self" THEN vec' = v /\ UNCHANGED remainder
    ELSE remainder' = v /\ UNCHANGED vec
\* self and remainder once try_extend has left its Vec as v.
SelfAfter(v) == IF cur = "self" THEN v ELSE vec
RemainderAfter(v) == IF cur = "self" THEN remainder ELSE v

TryExtend ==
    /\ pc = "idle"
    /\ Budget >= 1
    /\ \E total \in 0..Min(MaxIter, Budget - 1), panicAt \in 0..MaxIter + 1 :
          /\ panicAt <= total + 1
          /\ source' = Source(total, panicAt)
          /\ Begin([Call("try_extend", 0, 0, panicAt, <<>>) EXCEPT !.total = total],
                   <<>>)
    /\ Running
    /\ pc' = "try_extend"
    /\ nextId' = nextId + 1
    /\ UNCHANGED <<vec, dropCount, cur, remainder, index, range_end,
                   lower_bound, after_splice, local_len, new_len, item, slice>>

\* collect.rs 49-65, try_collect / try_collect_in: Vec::new_in(alloc), then
\* try_extend on it.  On Ok the caller goes on with the new Vec in place of
\* the one it had, which it drops; on failure the new Vec is dropped and the
\* caller keeps what it had.
TryCollect ==
    /\ pc = "idle"
    /\ Budget >= 1
    /\ \E total \in 0..Min(MaxIter, Budget - 1), panicAt \in 0..MaxIter + 1 :
          /\ panicAt <= total + 1
          /\ source' = Source(total, panicAt)
          /\ Begin([Call("try_collect", 0, 0, panicAt, <<>>) EXCEPT !.total = total],
                   <<>>)
    /\ Running
    /\ pc' = "try_extend"
    /\ cur' = "rem"
    /\ remainder' = NewVec
    /\ nextId' = nextId + 1
    /\ UNCHANGED <<vec, dropCount, index, range_end, lower_bound, after_splice,
                   local_len, new_len, item, slice>>

\* let (low_bound, _) = iter.size_hint(); self.try_reserve(low_bound)?
ExtendReserve ==
    /\ pc = "try_extend"
    /\ \E low_bound \in Hints(source), ok \in BOOLEAN :
          /\ LET r == try_reserve(Target, low_bound, ok)
             IN IF r.ok
                THEN /\ SetTarget(r.vec)
                     /\ pc' = "try_extend_loop"
                     /\ UNCHANGED <<dropCount, cur, index, range_end, lower_bound,
                                    after_splice, local_len, new_len, item, slice,
                                    source, result, site>>
                ELSE Finish("err", "try_extend_reserve", SelfAfter(r.vec),
                            drop_vec(RemainderAfter(r.vec)))
          /\ call' = [call EXCEPT !.low_bound = low_bound,
                                   !.refused = @ + Refused(Target, low_bound, ok)]
    /\ UNCHANGED <<nextId, supplied>>

\* for item in iter { self.try_push(item)? }
ExtendLoop ==
    /\ pc = "try_extend_loop"
    /\ IF Panics(source)
       THEN /\ Finish("panic", "try_extend_next", vec, drop_vec(remainder))
            /\ UNCHANGED <<nextId, supplied, call>>
       ELSE IF Exhausted(source)
       THEN /\ IF cur = "self"
               THEN Finish("ok", "return", vec, <<>>)
               ELSE IF call.op = "try_collect"
               THEN Finish("ok", "return", remainder, drop_vec(vec))
               ELSE /\ pc' = "splice_tail"
                    /\ cur' = "self"
                    /\ UNCHANGED <<vec, dropCount, remainder, index, range_end,
                                   lower_bound, after_splice, local_len, new_len, item,
                                   slice, source, result, site>>
            /\ UNCHANGED <<nextId, supplied, call>>
       ELSE \E ok \in BOOLEAN :
               LET x == Elem(nextId, nextId)
                   r == try_push(Target, x, ok)
               IN /\ nextId' = nextId + 1
                  /\ supplied' = Append(supplied, x)
                  /\ call' = [call EXCEPT !.refused = @ + Refused(Target, 1, ok)]
                  /\ IF r.ok
                     THEN /\ SetTarget(r.vec)
                          /\ source' = Advance(source)
                          /\ UNCHANGED <<dropCount, pc, cur, index, range_end,
                                         lower_bound, after_splice, local_len, new_len,
                                         item, slice, result, site>>
                     ELSE Finish("err", "try_extend_push", SelfAfter(r.vec),
                                 r.drops \o drop_vec(RemainderAfter(r.vec)))

\* ------------------------------------------------- try_extend_from_slice
\* lib.rs 288-303.  SetLenOnDrop (set_len_on_drop.rs 67-98): new() reads
\* len into local_len, drop() writes it back, on return and on unwinding.
\* A guard that counts from 0 instead of from the Vec's length.
SetLenOnDrop_new_zero(v) == 0
\* A guard that counts from one past the Vec's length.
SetLenOnDrop_new_one_past(v) == v.len + 1
SetLenOnDrop_new(v) == v.len
\* A guard that never writes its counter back.
SetLenOnDrop_drop_noop(v, n) == v
\* A guard that counts the slot being filled before it is written.
SetLenOnDrop_drop_off_by_one(v, n) == set_len(v, n + 1)
\* A guard that loses its last increment.
SetLenOnDrop_drop_lags(v, n) == set_len(v, IF n > v.len THEN n - 1 ELSE n)
\* A guard that puts the tail set aside by the splice back into the length.
SetLenOnDrop_drop_with_tail(v, n) == set_len(v, n + after_splice)
SetLenOnDrop_drop(v, n) == set_len(v, n)

TryExtendFromSlice ==
    /\ pc = "idle"
    /\ Budget >= 1
    /\ \E n \in 0..Min(MaxIter, Budget - 1), panicAt \in 0..MaxIter, ok \in BOOLEAN :
          LET r == try_reserve(vec, n, ok)
              s == [k \in 1..n |-> Elem(nextId, nextId + k)]
          IN /\ panicAt <= n
             /\ Begin([Call("try_extend_from_slice", 0, 0, panicAt, s)
                          EXCEPT !.refused = Refused(vec, n, ok)], <<>>)
             /\ IF r.ok
                THEN /\ vec' = r.vec
                     /\ slice' = s
                     /\ source' = Source(n, panicAt)
                     /\ local_len' = SetLenOnDrop_new(r.vec)
                     /\ pc' = "extend_from_slice_loop"
                     /\ Running
                     /\ UNCHANGED <<dropCount, cur, remainder, index, range_end,
                                    lower_bound, after_splice, new_len, item>>
                ELSE Finish("err", "try_reserve", r.vec, <<>>)
    /\ nextId' = nextId + 1

\* for item in slice.iter() { ptr.add(local_len).write(item.clone()); local_len += 1 }
ExtendFromSliceLoop ==
    /\ pc = "extend_from_slice_loop"
    /\ IF Exhausted(source)
       THEN /\ Finish("ok", "return", SetLenOnDrop_drop(vec, local_len), <<>>)
            /\ UNCHANGED <<nextId, supplied>>
       ELSE IF Panics(source)
       THEN /\ Finish("panic", "clone", SetLenOnDrop_drop(vec, local_len), <<>>)
            /\ UNCHANGED <<nextId, supplied>>
       ELSE LET x == clone(slice[source.calls + 1], nextId)
            IN /\ vec' = write(vec, local_len, x)
               /\ local_len' = local_len + 1
               /\ source' = Advance(source)
               /\ nextId' = nextId + 1
               /\ supplied' = Append(supplied, x)
               /\ UNCHANGED <<dropCount, pc, cur, remainder, index, range_end,
                              lower_bound, after_splice, new_len, item, slice,
                              result, site>>
    /\ UNCHANGED call

\* ------------------------------------------------------------ try_resize
\* lib.rs 323-345.  item is owned by the call and destroyed when it ends.
TryResize ==
    /\ pc = "idle"
    /\ Budget >= 1
    /\ \E n \in (0..MaxCap) \cup {MaxUsize}, panicAt \in 0..MaxCap, ok \in BOOLEAN :
          LET x == Elem(nextId, nextId)
              grow == n - vec.len
              r == try_reserve(vec, grow, ok)
              t == truncate(vec, n)
          IN /\ IF n = MaxUsize THEN panicAt = 0 ELSE grow <= Budget - 1
             /\ panicAt <= Max(grow, 0)
             /\ Begin([Call("try_resize", n, n, panicAt, <<x>>)
                          EXCEPT !.refused = IF n > vec.len
                                             THEN Refused(vec, grow, ok) ELSE 0],
                      <<>>)
             /\ IF n < vec.len
                THEN Finish("ok", "truncate", t.vec, t.drops \o <<x>>)
                ELSE IF n > vec.len
                THEN IF r.ok
                     THEN /\ vec' = r.vec
                          /\ new_len' = n
                          /\ item' = x
                          /\ source' = Source(grow, panicAt)
                          /\ local_len' = SetLenOnDrop_new(r.vec)
                          /\ pc' = "resize_loop"
                          /\ Running
                          /\ UNCHANGED <<dropCount, cur, remainder, index, range_end,
                                         lower_bound, after_splice, slice>>
                     ELSE Finish("err", "try_reserve", r.vec, <<x>>)
                ELSE Finish("ok", "return", vec, <<x>>)
    /\ nextId' = nextId + 1

\* loop { write(item.clone()); local_len += 1; if local_len == new_len { break } }
ResizeLoop ==
    /\ pc = "resize_loop"
    /\ IF Panics(source)
       THEN /\ Finish("panic", "clone", SetLenOnDrop_drop(vec, local_len), <<item>>)
            /\ UNCHANGED <<nextId, supplied>>
       ELSE LET x == clone(item, nextId)
                v == write(vec, local_len, x)
            IN /\ nextId' = nextId + 1
               /\ supplied' = Append(supplied, x)
               /\ IF local_len + 1 = new_len
                  THEN Finish("ok", "return", SetLenOnDrop_drop(v, local_len + 1),
                              <<item>>)
                  ELSE /\ vec' = v
                       /\ local_len' = local_len + 1
                       /\ source' = Advance(source)
                       /\ UNCHANGED <<dropCount, pc, cur, remainder, index, range_end,
                                      lower_bound, after_splice, new_len, item, slice,
                                      result, site>>
    /\ UNCHANGED call

\* --------------------------------------------------- try_new_repeat_item
\* lib.rs 675-710: try_vec![item; size] and try_vec_in![item; size => alloc].
\* The new Vec (remainder here) and item are owned by the call: item is
\* destroyed when the call ends, the Vec is returned on Ok and dropped on
\* failure and on unwinding, after the guard has written its length.  On Ok
\* the caller goes on with the new Vec in place of the one it had, which
\* it drops.
TryNewRepeatItem ==
    /\ pc = "idle"
    /\ Budget >= 1
    /\ \E size \in (0..MaxCap) \cup {MaxUsize}, panicAt \in 0..MaxCap, ok \in BOOLEAN :
          LET x == Elem(nextId, nextId)
              r == try_reserve(NewVec, size, ok)
          IN /\ IF size = MaxUsize THEN panicAt = 0 ELSE size <= Budget - 1
             /\ panicAt <= size
             /\ Begin([Call("try_new_repeat_item", size, size, panicAt, <<x>>)
                          EXCEPT !.refused = IF size > 0
                                             THEN Refused(NewVec, size, ok) ELSE 0],
                      <<>>)
             /\ IF size > 0
                THEN IF r.ok
                     THEN /\ remainder' = r.vec
                          /\ cur' = "rem"
                          /\ new_len' = size
                          /\ item' = x
                          /\ source' = Source(size, panicAt)
                          /\ local_len' = SetLenOnDrop_new(r.vec)
                          /\ pc' = "repeat_loop"
                          /\ Running
                          /\ UNCHANGED <<vec, dropCount, index, range_end,
                                         lower_bound, after_splice, slice>>
                     ELSE Finish("err", "try_reserve", vec, drop_vec(r.vec) \o <<x>>)
                ELSE Finish("ok", "return", NewVec, <<x>> \o drop_vec(vec))
    /\ nextId' = nextId + 1

\* loop { write(item.clone()); local_len += 1; if local_len == size { break } }
RepeatLoop ==
    /\ pc = "repeat_loop"
    /\ IF Panics(source)
       THEN /\ Finish("panic", "clone", vec,
                      <<item>> \o drop_vec(SetLenOnDrop_drop(remainder, local_len)))
            /\ UNCHANGED <<nextId, supplied>>
       ELSE LET x == clone(item, nextId)
                v == write(remainder, local_len, x)
            IN /\ nextId' = nextId + 1
               /\ supplied' = Append(supplied, x)
               /\ IF local_len + 1 = new_len
                  THEN Finish("ok", "return", SetLenOnDrop_drop(v, local_len + 1),
                              <<item>> \o drop_vec(vec))
                  ELSE /\ remainder' = v
                       /\ local_len' = local_len + 1
                       /\ source' = Advance(source)
                       /\ UNCHANGED <<vec, dropCount, pc, cur, index, range_end,
                                      lower_bound, after_splice, new_len, item, slice,
                                      result, site>>
    /\ UNCHANGED call

\* ------------------------------------------------------- try_resize_with
\* lib.rs 347-372.
TryResizeWith ==
    /\ pc = "idle"
    /\ Budget >= 1
    /\ \E n \in (0..MaxCap) \cup {MaxUsize}, panicAt \in 0..MaxCap, ok \in BOOLEAN :
          LET grow == n - vec.len
              r == try_reserve(vec, grow, ok)
              t == truncate(vec, n)
          IN /\ IF n = MaxUsize THEN panicAt = 0 ELSE grow <= Budget - 1
             /\ panicAt <= Max(grow, 0)
             /\ Begin([Call("try_resize_with", n, n, panicAt, <<>>)
                          EXCEPT !.refused = IF n > vec.len
                                             THEN Refused(vec, grow, ok) ELSE 0],
                      <<>>)
             /\ IF n < vec.len
                THEN Finish("ok", "truncate", t.vec, t.drops)
                ELSE IF n > vec.len
                THEN IF r.ok
                     THEN /\ vec' = r.vec
                          /\ new_len' = n
                          /\ source' = Source(grow, panicAt)
                          /\ local_len' = SetLenOnDrop_new(r.vec)
                          /\ pc' = "resize_with_loop"
                          /\ Running
                          /\ UNCHANGED <<dropCount, cur, remainder, index, range_end,
                                         lower_bound, after_splice, item, slice>>
                     ELSE Finish("err", "try_reserve", r.vec, <<>>)
                ELSE Finish("ok", "return", vec, <<>>)
    /\ nextId' = nextId + 1

\* loop { let item = f(); write(item); local_len += 1; if local_len == new_len { break } }
ResizeWithLoop ==
    /\ pc = "resize_with_loop"
    /\ IF Panics(source)
       THEN /\ Finish("panic", "f", SetLenOnDrop_drop(vec, local_len), <<>>)
            /\ UNCHANGED <<nextId, supplied>>
       ELSE LET x == Elem(nextId, nextId)
                v == write(vec, local_len, x)
            IN /\ nextId' = nextId + 1
               /\ supplied' = Append(supplied, x)
               /\ IF local_len + 1 = new_len
                  THEN Finish("ok", "return", SetLenOnDrop_drop(v, local_len + 1), <<>>)
                  ELSE /\ vec' = v
                       /\ local_len' = local_len + 1
                       /\ source' = Advance(source)
                       /\ UNCHANGED <<dropCount, pc, cur, remainder, index, range_end,
                                      lower_bound, after_splice, new_len, item, slice,
                                      result, site>>
    /\ UNCHANGED call

\* --------------------------------------------------------- try_splice_in
\* lib.rs 374-450.  The replacement source yields values of its own, or
\* (copy) it is a copy of the elements that are in the range now: slice
\* holds those, and the source yields a clone of each.

\* A range check that lets the end run one past len.
ValidRange_end_inclusive(start, end, len) == start <= end /\ end <= len + 1

\* slice::range(range, ..len) accepts start <= end <= len and panics otherwise.
ValidRange(start, end, len) == start <= end /\ end <= len

\* The ranges a caller can write: a..b, a..=b, a.., ..b, ..=b and .. .
RangeForms == {"a..b", "a..=b", "a..", "..b", "..=b", ".."}
\* slice::range turns the bounds into start..end: an unbounded start is 0,
\* an unbounded end is len, an included end e is e + 1 (a panic when that
\* overflows: here end = MaxUsize + 1, which no len reaches).
start_bound(form, a) == IF form \in {"a..b", "a..=b", "a.."} THEN a ELSE 0
end_bound(form, b, len) ==
    IF form \in {"a..", ".."} THEN len
    ELSE IF form \in {"a..=b", "..=b"} THEN b + 1
    ELSE b

TrySpliceIn ==
    /\ pc = "idle"
    /\ Budget >= 1
    /\ \E form \in RangeForms, a \in 0..vec.len + 1,
          b \in (0..vec.len + 1) \cup {MaxUsize},
          total \in 0..Min(MaxIter, Budget - 1), panicAt \in 0..MaxIter + 1,
          copy \in BOOLEAN :
          LET start == start_bound(form, a)
              end == end_bound(form, b, vec.len)
              of == IF copy THEN Range(vec, start, end) ELSE <<>>
          IN /\ form \in {"..b", "..=b", ".."} => a = 0
             /\ form \in {"a..", ".."} => b = 0
             /\ panicAt <= total + 1
             /\ copy => /\ ValidRange(start, end, vec.len)
                         /\ start < end
                         /\ total = end - start
                         /\ panicAt = 0
             /\ Begin([Call("try_splice_in", start, end, panicAt, of)
                          EXCEPT !.total = total,
                                 !.form = IF ValidRange(start, end, vec.len)
                                          THEN "" ELSE form], <<>>)
             /\ IF ValidRange(start, end, vec.len)
                THEN /\ index' = start
                     /\ range_end' = end
                     /\ source' = Source(total, panicAt)
                     /\ slice' = of
                     /\ pc' = IF start < end THEN "splice_overwrite" ELSE "splice_hint"
                     /\ Running
                     /\ UNCHANGED <<vec, dropCount, cur, remainder, lower_bound,
                                    after_splice, local_len, new_len, item>>
                ELSE Finish("panic", "slice_range", vec, <<>>)
    /\ nextId' = nextId + 1

\* while index < end { if let Some(item) = next() { self[index] = item; index += 1 }
\*                     else { self.drain(index..end); return Ok(()) } }
SpliceOverwrite ==
    /\ pc = "splice_overwrite"
    /\ IF Panics(source)
       THEN /\ Finish("panic", "overwrite_next", vec, <<>>)
            /\ UNCHANGED <<nextId, supplied>>
       ELSE IF Exhausted(source)
       THEN LET d == drain(vec, index, range_end)
            IN /\ Finish("ok", "drain", d.vec, d.drops)
               /\ UNCHANGED <<nextId, supplied>>
       ELSE LET x == IF slice = <<>> THEN Elem(nextId, nextId)
                     ELSE clone(slice[source.calls + 1], nextId)
                a == assign(vec, index, x)
            IN /\ vec' = a.vec
               /\ dropCount' = Destroy(dropCount, a.drops)
               /\ index' = index + 1
               /\ pc' = IF index + 1 < range_end THEN "splice_overwrite" ELSE "splice_hint"
               /\ source' = Advance(source)
               /\ nextId' = nextId + 1
               /\ supplied' = Append(supplied, x)
               /\ UNCHANGED <<cur, remainder, range_end, lower_bound, after_splice,
                              local_len, new_len, item, slice, result, site>>
    /\ UNCHANGED call

\* let (lower_bound, ..) = size_hint(); if lower_bound > 0 { move_tail(self, index,
\* lower_bound)?; after_splice = len - index; set_len(index); SetLenOnDrop::new(self) }
\* otherwise on to try_collect_in: Vec::new_in(alloc), then try_extend.
SpliceHint ==
    /\ pc = "splice_hint"
    /\ \E lb \in Hints(source), ok \in BOOLEAN :
          LET r == move_tail(vec, index, lb, ok)
              v == set_len(r.vec, index)
          IN /\ call' = [call EXCEPT !.lb = lb,
                                      !.refused = @ + (IF lb > 0
                                                       THEN Refused(vec, lb, ok)
                                                       ELSE 0)]
             /\ IF lb > 0
                THEN IF r.ok
                     THEN /\ vec' = v
                          /\ lower_bound' = lb
                          /\ after_splice' = r.vec.len - index
                          /\ local_len' = SetLenOnDrop_new(v)
                          /\ pc' = "splice_fill"
                          /\ UNCHANGED <<dropCount, cur, remainder, index, range_end,
                                         new_len, item, slice, source, result, site>>
                     ELSE Finish("err", "move_tail_known", r.vec, <<>>)
                ELSE /\ pc' = "try_extend"
                     /\ cur' = "rem"
                     /\ remainder' = NewVec
                     /\ UNCHANGED <<vec, dropCount, index, range_end, lower_bound,
                                    after_splice, local_len, new_len, item, slice,
                                    source, result, site>>
    /\ UNCHANGED <<nextId, supplied>>

\* loop { write(replace_with.next().unwrap()); local_len += 1;
\*        if local_len == index + lower_bound { break } }
\* then index += lower_bound; set_len(len + after_splice); on to try_collect_in.
SpliceFill ==
    /\ pc = "splice_fill"
    /\ IF Panics(source)
       THEN /\ Finish("panic", "fill_next", SetLenOnDrop_drop(vec, local_len), <<>>)
            /\ UNCHANGED <<nextId, supplied>>
       ELSE IF Exhausted(source)
       THEN /\ Finish("panic", "fill_unwrap", SetLenOnDrop_drop(vec, local_len), <<>>)
            /\ UNCHANGED <<nextId, supplied>>
       ELSE LET x == Elem(nextId, nextId)
                v == write(vec, local_len, x)
                g == SetLenOnDrop_drop(v, local_len + 1)
            IN /\ nextId' = nextId + 1
               /\ supplied' = Append(supplied, x)
               /\ source' = Advance(source)
               /\ IF local_len + 1 = index + lower_bound
                  THEN /\ vec' = set_len(g, g.len + after_splice)
                       /\ index' = index + lower_bound
                       /\ local_len' = 0
                       /\ pc' = "try_extend"
                       /\ cur' = "rem"
                       /\ remainder' = NewVec
                  ELSE /\ vec' = v
                       /\ local_len' = local_len + 1
                       /\ UNCHANGED <<pc, cur, remainder, index>>
               /\ UNCHANGED <<dropCount, range_end, lower_bound, after_splice, new_len,
                              item, slice, result, site>>
    /\ UNCHANGED call

\* The items of remainder written to slots [at, at + remainder.len) of v.
RECURSIVE write_all(_, _, _)
write_all(v, at, items) ==
    IF items = <<>> THEN v
    ELSE write_all(write(v, at, Head(items)), at + 1, Tail(items))

\* if !remainder.is_empty() { move_tail(self, index, remainder.len())?;
\*     set_len(len + remainder.len()); write each item of remainder at index.. }
SpliceTail ==
    /\ pc = "splice_tail"
    /\ \E ok \in BOOLEAN :
          /\ LET r == move_tail(vec, index, remainder.len, ok)
                 v == set_len(r.vec, r.vec.len + remainder.len)
             IN IF remainder.len = 0
             THEN Finish("ok", "return", vec, <<>>)
             ELSE IF r.ok
             THEN Finish("ok", "return", write_all(v, index, View(remainder)), <<>>)
             ELSE Finish("err", "move_tail_remainder", r.vec, drop_vec(remainder))
          /\ call' = [call EXCEPT !.refused = @ + (IF remainder.len > 0
                                                   THEN Refused(vec, remainder.len, ok)
                                                   ELSE 0)]
    /\ UNCHANGED <<nextId, supplied>>

\* --------------------------------------------- try_insert, index > len
\* lib.rs 314-321 and 716-728 for an index the documentation forbids.
\* Nothing compares index with len: move_tail reserves one slot first and
\* returns the allocator's refusal; after a successful reserve it computes
\* vec.len() - index, which is below zero.  A build with overflow checks
\* panics there.  A build without them wraps to a count near usize::MAX and
\* hands it to ptr::copy, which is undefined: the copy runs off the
\* allocation and the process faults, or (nothing to copy for a zero-sized
\* T, or the copy goes unnoticed) the call goes on, writes the element at
\* index, adds one to len and returns Ok.
TryInsertPastLen ==
    /\ pc = "idle"
    /\ Budget >= 1
    /\ \E i \in (vec.len + 1)..(MaxCap + 1), ok \in BOOLEAN,
          build \in {"overflow_checks", "fault", "goes_on"} :
          LET x == Elem(nextId, nextId)
              r == try_reserve(vec, 1, ok)
              count == wrapping_sub(r.vec.len, i)
          IN /\ Begin([Call("try_insert", i, i, 0, <<x>>)
                          EXCEPT !.ok = ok, !.refused = Refused(vec, 1, ok)], <<x>>)
             /\ IF ~r.ok
                THEN Finish("err", "move_tail", r.vec, <<x>>)
                ELSE IF build = "overflow_checks"
                THEN Finish("panic", "sub_overflow", r.vec, <<x>>)
                ELSE IF build = "fault" /\ i + 1 + count > r.vec.cap
                THEN /\ vec' = r.vec
                     /\ pc' = "aborted"
                     /\ result' = "abort"
                     /\ site' = "ptr_copy"
                     /\ ClearLocals
                     /\ UNCHANGED dropCount
                ELSE Finish("ok", "return",
                            set_len(write(r.vec, i, x), r.vec.len + 1), <<>>)
    /\ nextId' = nextId + 1

Next ==
    \/ Observe
    \/ TryPush
    \/ TryWithCapacity
    \/ TryInsert
    \/ TryExtend
    \/ TryCollect
    \/ ExtendReserve
    \/ ExtendLoop
    \/ TryExtendFromSlice
    \/ ExtendFromSliceLoop
    \/ TryResize
    \/ ResizeLoop
    \/ TryResizeWith
    \/ ResizeWithLoop
    \/ TryNewRepeatItem
    \/ RepeatLoop
    \/ TrySpliceIn
    \/ SpliceOverwrite
    \/ SpliceHint
    \/ SpliceFill
    \/ SpliceTail

Spec == Init /\ [][Next]_vars

\* The same program with callers that also break try_insert's documented
\* precondition.
NextAnyIndex ==
    \/ Next
    \/ TryInsertPastLen

SpecAnyIndex == Init /\ [][NextAnyIndex]_vars

\* ==================================================================
\* Properties
\* ==================================================================
B == call.B
Take(s, n) == SubSeq(s, 1, n)
DropN(s, n) == SubSeq(s, n + 1, Len(s))
Elems(s) == {s[i] : i \in DOMAIN s}
IdsOf(s) == {s[i].id : i \in DOMAIN s}
\* The call op has just returned to the caller.
Returned(op) == pc = "returned" /\ call.op = op
\* The caller can look at the Vec.
Observable == pc \in {"returned", "idle"}
\* The Vec the call started from (a call starts from a Vec whose spare
\* capacity the caller has not written).
Before ==
    [mem |-> [i \in Slots |-> IF i < Len(B) THEN B[i + 1] ELSE Uninit],
     len |-> Len(B), cap |-> call.cap]
\* Elements the source produced while the old range was overwritten and
\* while the gap of lower_bound slots was filled.
Direct == (call.end - call.start) + Max(call.lb, 0)

\* C1: whenever the caller can observe the Vec (after Ok, after an
\* AllocationError, after a panic in caller-supplied code has unwound, in
\* any sequence of calls), len <= capacity.
C1_LenWithinCapacity == Observable => vec.len <= vec.cap

\* A call interrupted by a panic, made on a Vec that earlier calls have
\* grown beyond any initial one, which it has grown further.
C1_Witness ==
    /\ pc = "returned"
    /\ result = "panic"
    /\ Len(B) > MaxInit
    /\ vec.len > Len(B)

\* C2: whenever the caller can observe the Vec, every slot in [0, len)
\* holds a fully written value that was in the Vec before the call or was
\* supplied to it, no value is in two visible slots, and no uninitialised
\* slot and no destroyed value is visible.
C2_VisibleElementsValid ==
    Observable =>
        \A i \in 1..vec.len :
            LET x == View(vec)[i]
            IN /\ x.id # 0
               /\ x.id \in Ids
               /\ dropCount[x.id] = 0
               /\ \A j \in 1..vec.len : j # i => View(vec)[j].id # x.id
               /\ pc = "returned" => x \in Elems(B) \cup Elems(supplied)

\* A splice interrupted while filling the gap: the relocated tail lies
\* beyond len, the prefix and the elements produced so far are visible.
C2_Witness ==
    /\ Returned("try_splice_in")
    /\ site = "fill_next"
    /\ call.start > 0
    /\ call.end < Len(B)
    /\ vec.len > call.start

\* C3: a try_splice_in that returns Ok leaves B[0:start] ++ R ++ B[end:],
\* of length len(B) - (end - start) + len(R), for R shorter than, as long
\* as, longer than the range, and empty.
C3_SpliceResult ==
    Returned("try_splice_in") /\ result = "ok" =>
        /\ View(vec) = Take(B, call.start) \o supplied \o DropN(B, call.end)
        /\ vec.len = Len(B) - (call.end - call.start) + Len(supplied)

\* A splice inside the Vec that went through all three phases.
C3_Witness ==
    /\ Returned("try_splice_in")
    /\ result = "ok"
    /\ 0 < call.start
    /\ call.start < call.end
    /\ call.end < Len(B)
    /\ call.lb > 0
    /\ Len(supplied) > Direct

\* C4: a panic of the source while the gap opened for its lower bound is
\* filled leaves B[0:start] followed by exactly the elements produced
\* before the panic; the relocated tail B[end:] is not visible and not
\* destroyed, nothing is destroyed twice, and the panic reaches the caller.
C4_PanicWhileFilling ==
    Returned("try_splice_in") /\ site = "fill_next" =>
        /\ result = "panic"
        /\ View(vec) = Take(B, call.start) \o supplied
        /\ vec.len = call.start + Len(supplied)
        /\ \A x \in Elems(DropN(B, call.end)) :
              dropCount[x.id] = 0 /\ x.id \notin IdsOf(View(vec))
        /\ \A i \in Ids : dropCount[i] <= 1

\* The panic came after part of the gap was filled, with a prefix, an
\* overwritten range and a tail around it.
C4_Witness ==
    /\ Returned("try_splice_in")
    /\ site = "fill_next"
    /\ 0 < call.start
    /\ call.start < call.end
    /\ call.end < Len(B)
    /\ Len(supplied) > call.end - call.start

\* C5: a panic of the source while the remainder of unknown count is
\* collected leaves the Vec as the known-remainder phase left it,
\* B[0:start] ++ (the first (end - start) + lower_bound elements) ++ B[end:];
\* the elements gathered in the temporary Vec are destroyed, none is added,
\* and the panic reaches the caller.
C5_PanicWhileCollecting ==
    Returned("try_splice_in") /\ site = "try_extend_next" =>
        /\ result = "panic"
        /\ View(vec) = Take(B, call.start) \o Take(supplied, Direct)
                          \o DropN(B, call.end)
        /\ \A x \in Elems(DropN(supplied, Direct)) :
              dropCount[x.id] = 1 /\ x.id \notin IdsOf(View(vec))
        /\ \A x \in Elems(View(vec)) : dropCount[x.id] = 0

\* The panic came after the gap was filled and an element was gathered.
C5_Witness ==
    /\ Returned("try_splice_in")
    /\ site = "try_extend_next"
    /\ call.start < call.end
    /\ call.end < Len(B)
    /\ call.lb > 0
    /\ Len(supplied) > Direct

\* C6: a reserve that fails inside try_splice_in makes it return
\* AllocationError with the Vec as the completed phases left it: the tail
\* shift of the known-remainder phase leaves B[0:start] ++ (first end - start
\* elements) ++ B[end:] at the original length, a failure while collecting
\* or in the final tail shift leaves B[0:start] ++ (first (end - start) +
\* lower_bound elements) ++ B[end:]; no tail element is moved, lost or
\* duplicated.
C6_ReserveFailureInSplice ==
    Returned("try_splice_in") /\ result = "err" =>
        /\ site \in {"move_tail_known", "try_extend_reserve", "try_extend_push",
                     "move_tail_remainder"}
        /\ site = "move_tail_known" =>
              /\ Len(supplied) = call.end - call.start
              /\ View(vec) = Take(B, call.start) \o supplied \o DropN(B, call.end)
              /\ vec.len = Len(B)
        /\ site # "move_tail_known" =>
              View(vec) = Take(B, call.start) \o Take(supplied, Direct)
                             \o DropN(B, call.end)
        /\ \A x \in Elems(DropN(B, call.end)) : dropCount[x.id] = 0

\* The final tail shift failed after a gap was filled, with a tail to move.
C6_Witness ==
    /\ Returned("try_splice_in")
    /\ result = "err"
    /\ site = "move_tail_remainder"
    /\ call.lb > 0
    /\ call.end < Len(B)

\* C7: when the clone of the k-th slice element panics in
\* try_extend_from_slice, the Vec is B followed by clones of exactly the
\* first k - 1 slice elements, len(B) + k - 1 long, and the panic reaches
\* the caller.
C7_PanicInExtendFromSlice ==
    Returned("try_extend_from_slice") /\ call.k >= 1 /\ result # "err" =>
        /\ result = "panic"
        /\ View(vec) = B \o supplied
        /\ Len(supplied) = call.k - 1
        /\ \A i \in DOMAIN supplied :
              supplied[i].val = call.arg[i].val /\ supplied[i].id # call.arg[i].id
        /\ vec.len = Len(B) + call.k - 1

\* The third clone panicked, on a Vec that was not empty.
C7_Witness ==
    /\ Returned("try_extend_from_slice")
    /\ result = "panic"
    /\ call.k >= 3
    /\ Len(B) > 0

\* C8: when the j-th production of a fill value panics while
\* try_resize_with (generator) or try_resize (clone of the item) grows the
\* Vec, the Vec is B followed by exactly the first j - 1 produced values,
\* len(B) + j - 1 long, and the panic reaches the caller.
C8_PanicInResize ==
    pc = "returned" /\ call.op \in {"try_resize", "try_resize_with"}
        /\ call.k >= 1 /\ result # "err" =>
        /\ result = "panic"
        /\ View(vec) = B \o supplied
        /\ Len(supplied) = call.k - 1
        /\ vec.len = Len(B) + call.k - 1
        /\ call.op = "try_resize" =>
              \A i \in DOMAIN supplied :
                 supplied[i].val = call.arg[1].val /\ supplied[i].id # call.arg[1].id

\* The third clone of the item panicked, on a Vec that was not empty.
C8_Witness ==
    /\ Returned("try_resize")
    /\ result = "panic"
    /\ call.k >= 3
    /\ Len(B) > 0

\* C9: when the k-th next() of the source panics in try_extend, the Vec is
\* B followed by exactly the k - 1 elements returned before, and the panic
\* reaches the caller.
C9_PanicInExtend ==
    Returned("try_extend") /\ call.k >= 1 /\ result # "err" =>
        /\ result = "panic"
        /\ View(vec) = B \o supplied
        /\ Len(supplied) = call.k - 1
        /\ \A i \in Ids : dropCount[i] = 0

\* The third next() panicked, on a Vec that was not empty.
C9_Witness ==
    /\ Returned("try_extend")
    /\ result = "panic"
    /\ call.k >= 3
    /\ Len(B) > 0

\* C10: n successful try_push calls with v1..vn on B leave B ++ [v1..vn]:
\* each adds exactly one to len and leaves the earlier elements alone.
C10_PushAppends ==
    Returned("try_push") /\ result = "ok" =>
        /\ View(vec) = B \o supplied
        /\ Len(supplied) = call.n
        /\ vec.len = Len(B) + call.n

\* Three pushes in a row on a Vec that was not empty.
C10_Witness ==
    /\ Returned("try_push")
    /\ result = "ok"
    /\ call.n >= 3
    /\ Len(B) > 0

\* C11: a try_insert(i, x) with 0 <= i <= len(B) that returns Ok leaves
\* B[0:i] ++ [x] ++ B[i:], of length len(B) + 1: the elements before i stay
\* where they were, every element at or after i is one slot further right.
C11_InsertShiftsTail ==
    Returned("try_insert") /\ result = "ok" =>
        /\ View(vec) = Take(B, call.start) \o call.arg \o DropN(B, call.start)
        /\ vec.len = Len(B) + 1
        /\ \A j \in 1..Len(B) :
              View(vec)[IF j <= call.start THEN j ELSE j + 1] = B[j]
        /\ \A i \in Ids : dropCount[i] = 0

\* An insert inside a full Vec: elements on both sides, and a reallocation.
C11_Witness ==
    /\ Returned("try_insert")
    /\ result = "ok"
    /\ 0 < call.start
    /\ call.start + 1 < Len(B)
    /\ call.cap = Len(B)

\* C12: try_insert(index, x) with index > len panics, whatever the Vec and
\* whatever the allocator answers (also when it would refuse the one-slot
\* reserve): the call never returns Ok or AllocationError, and it leaves
\* the length and every visible element as they were.
C12_InsertPastLenPanics ==
    pc \in {"returned", "aborted"} /\ call.op = "try_insert"
        /\ call.start > Len(B) =>
        /\ result = "panic"
        /\ vec.len = Len(B)
        /\ View(vec) = B

\* C13: try_insert(len, x) does what try_push(x) does: from the same Vec and
\* with the same answer of the allocator, both return the same outcome (Ok
\* or AllocationError) and leave the same contents, length and capacity.
C13_InsertAtLenIsPush ==
    Returned("try_insert") /\ call.start = Len(B) =>
        LET p == try_push(Before, call.arg[1], call.ok)
        IN /\ (result = "ok") = p.ok
           /\ (result = "err") = ~p.ok
           /\ View(vec) = View(p.vec)
           /\ vec.len = p.vec.len
           /\ vec.cap = p.vec.cap
           /\ IdsOf(p.drops) = {i \in Ids : dropCount[i] > 0}

\* An insert at the end of a Vec with exactly one spare slot.
C13_Witness ==
    /\ Returned("try_insert")
    /\ call.start = Len(B)
    /\ Len(B) > 0
    /\ call.cap = Len(B) + 1
    /\ result = "ok"

\* C14: a try_resize(n, v) or try_resize_with(n, f) on B of length L that
\* returns Ok leaves length n.  n > L: B followed by n - L clones of v (by
\* the values f returned, in the order it returned them).  n < L: B[0:n],
\* the elements B[n:L] destroyed, no allocation attempted (the call cannot
\* fail and the capacity stays).  n = L: the Vec is unchanged.
C14_ResizeResult ==
    pc = "returned" /\ call.op \in {"try_resize", "try_resize_with"} =>
        LET n == call.start
            L == Len(B)
        IN /\ n < L => result = "ok" /\ site = "truncate"
           /\ result = "ok" =>
                 /\ vec.len = n
                 /\ n > L =>
                       /\ View(vec) = B \o supplied
                       /\ Len(supplied) = n - L
                       /\ call.op = "try_resize" =>
                              \A i \in DOMAIN supplied :
                                 /\ supplied[i].val = call.arg[1].val
                                 /\ supplied[i].id # call.arg[1].id
                 /\ n < L =>
                       /\ View(vec) = Take(B, n)
                       /\ \A x \in Elems(DropN(B, n)) : dropCount[x.id] = 1
                       /\ vec.cap = call.cap
                 /\ n = L => View(vec) = B /\ vec.cap = call.cap
                 /\ \A x \in Elems(View(vec)) : dropCount[x.id] = 0

\* A try_resize that cut two or more elements off and kept some.
C14_Witness ==
    /\ Returned("try_resize")
    /\ result = "ok"
    /\ call.start >= 1
    /\ Len(B) >= call.start + 2

\* What try_splice_in(start..end, R) makes of v when the source reports the
\* lower bound 0 at every size_hint: the overwrite phase, then everything
\* past the old range collected and moved in at once.  v has the capacity
\* the result needs.
SpliceUnhinted(v, start, end, R) ==
    LET m == Min(Len(R), end - start)
        w == write_all(v, start, Take(R, m))
        rest == DropN(R, m)
        r == move_tail(w, end, Len(rest), TRUE)
    IN IF Len(R) < end - start
       THEN drain(w, start + m, end).vec
       ELSE IF rest = <<>>
       THEN w
       ELSE write_all(set_len(r.vec, r.vec.len + Len(rest)), end, rest)

\* C15: what a successful try_splice_in leaves does not depend on the lower
\* bound the source reports: with the exact count, with any honest
\* under-estimate and with 0, the contents and the length are those of the
\* run in which everything past the old range goes through the collection
\* phase.
C15_SpliceHintIndependent ==
    Returned("try_splice_in") /\ result = "ok" =>
        LET u == SpliceUnhinted([Before EXCEPT !.cap = MaxCap],
                                call.start, call.end, supplied)
        IN /\ View(vec) = View(u)
           /\ vec.len = u.len

\* A source that reported exactly what it held past the old range, spliced
\* in front of a tail.
C15_Witness ==
    /\ Returned("try_splice_in")
    /\ result = "ok"
    /\ call.start < call.end
    /\ call.end < Len(B)
    /\ call.lb >= 2
    /\ Len(supplied) = Direct

Vals(s) == [i \in DOMAIN s |-> s[i].val]

\* C16: try_splice_in(range, a copy of B[range]), for a valid range and a
\* source that keeps the Iterator contract, returns Ok and leaves contents,
\* length and capacity as they were: every element outside the range is the
\* one that was there, every element of the range is replaced by its copy.
C16_SpliceSameIsNoOp ==
    Returned("try_splice_in")
        /\ ValidRange(call.start, call.end, Len(B))
        /\ call.arg = SubSeq(B, call.start + 1, call.end)
        /\ call.total = call.end - call.start
        /\ call.k = 0
        /\ call.lb <= 0
        /\ call.low_bound <= 0 =>
        /\ result = "ok"
        /\ Vals(View(vec)) = Vals(B)
        /\ vec.len = Len(B)
        /\ vec.cap = call.cap
        /\ \A i \in 1..Len(B) :
              IF call.start < i /\ i <= call.end
              THEN dropCount[B[i].id] = 1 /\ View(vec)[i].id # B[i].id
              ELSE View(vec)[i] = B[i]

\* A copy of two or more elements from the middle of a full Vec.
C16_Witness ==
    /\ Returned("try_splice_in")
    /\ result = "ok"
    /\ 0 < call.start
    /\ call.start + 2 <= call.end
    /\ call.end < Len(B)
    /\ call.arg = SubSeq(B, call.start + 1, call.end)
    /\ call.cap = Len(B)

\* C17: try_splice_in with a range whose start is beyond its end or whose
\* end is beyond len (an inclusive range ending at len is one) panics, it
\* does not return AllocationError; no slot of the Vec has been modified and
\* no element has been pulled from the replacement source.
C17_BadRangePanicsFirst ==
    Returned("try_splice_in")
        /\ (call.start > call.end \/ call.end > Len(B)) =>
        /\ result = "panic"
        /\ site = "slice_range"
        /\ vec = Before
        /\ supplied = <<>>
        /\ nextId = call.id + 1
        /\ \A i \in Ids : dropCount[i] = 0

\* An inclusive range that ends at len, on a Vec with elements, with a
\* source that has elements to give.
C17_Witness ==
    /\ Returned("try_splice_in")
    /\ call.form = "a..=b"
    /\ call.start <= Len(B)
    /\ call.end = Len(B) + 1
    /\ Len(B) > 0
    /\ call.total > 0

\* C18: try_collect / try_collect_in on a source, whatever lower bound it
\* reports (none, an under-estimate, the exact count), returns on success a
\* new Vec that holds exactly the elements the source produced, in the
\* order it produced them, with len = the number produced and len <=
\* capacity; it returns AllocationError when a reserve fails (and then no
\* Vec: what had been collected is destroyed).
C18_CollectResult ==
    Returned("try_collect") =>
        /\ result = "ok" =>
              /\ View(vec) = supplied
              /\ vec.len = Len(supplied)
              /\ Len(supplied) = call.total
              /\ vec.len <= vec.cap
              /\ \A x \in Elems(supplied) : dropCount[x.id] = 0
        /\ result = "err" =>
              /\ site \in {"try_extend_reserve", "try_extend_push"}
              /\ vec = Before
              /\ \A x \in Elems(supplied) : dropCount[x.id] = 1
        /\ call.k = 0 => result \in {"ok", "err"}

\* Three elements collected from a source that reported no lower bound.
C18_Witness ==
    /\ Returned("try_collect")
    /\ result = "ok"
    /\ call.low_bound = 0
    /\ Len(supplied) >= 3

\* C19: try_with_capacity(n) / try_with_capacity_in(n, alloc) returns an
\* empty Vec with capacity n; the n try_push calls that follow all succeed
\* without reallocation and leave length n and capacity n; one more push
\* gives length n + 1 and capacity >= n + 1.
C19_WithCapacityExact ==
    /\ Returned("try_with_capacity") /\ result = "ok" =>
          vec.len = 0 /\ vec.cap = call.start
    /\ Returned("try_push") /\ call.size >= 0 =>
          /\ call.n <= call.size =>
                result = "ok" /\ vec.len = call.n /\ vec.cap = call.size
          /\ call.n = call.size + 1 /\ result = "ok" =>
                vec.len = call.size + 1 /\ vec.cap >= call.size + 1

\* The request is beyond what sizes can express: count elements are more
\* than usize::MAX, or their bytes more than isize::MAX.
Overflows(count) == count > MaxUsize \/ count * ElemSize > MaxIsize

\* The number of elements the call's reserve asks room for in all (len +
\* additional), once the call has come to the reserve; -1 before.
Requested ==
    IF call.op = "try_with_capacity" THEN call.start
    ELSE IF call.op \in {"try_resize", "try_resize_with"} THEN call.start
    ELSE IF call.op = "try_extend" /\ call.low_bound >= 0
    THEN Len(B) + call.low_bound
    ELSE IF call.op = "try_collect" /\ call.low_bound >= 0 THEN call.low_bound
    ELSE IF call.op = "try_splice_in" /\ call.low_bound >= 0
    THEN call.low_bound
    ELSE IF call.op = "try_splice_in" /\ call.lb > 0 THEN Len(B) + call.lb
    ELSE -1

C21_FailureLeavesVecUnchanged ==
    pc = "returned" /\ result = "err"
        /\ call.op \in {"try_push", "try_insert", "try_extend_from_slice",
                        "try_resize", "try_resize_with"}
        /\ (call.op = "try_insert" => call.start <= Len(B)) =>
        /\ vec = Before
        /\ vec.len = Len(B)
        /\ vec.cap = call.cap
        /\ View(vec) = B
        /\ \A x \in Elems(B) : dropCount[x.id] = 0
        /\ call.op \in {"try_extend_from_slice", "try_resize", "try_resize_with"} =>
              supplied = <<>> /\ nextId = call.id + 1

\* A try_extend_from_slice with two or more elements to clone that failed
\* on a Vec with elements.
C21_Witness ==
    /\ Returned("try_extend_from_slice")
    /\ result = "err"
    /\ Len(call.arg) >= 2
    /\ Len(B) >= 2

\* C22: try_vec![x; n] / try_vec_in![x; n => a] returns on success a Vec of
\* exactly n clones of x (an empty Vec for n = 0) and destroys x; if the
\* reserve fails or the k-th clone panics, the k - 1 clones made so far and
\* x are each destroyed exactly once: nothing is leaked, nothing destroyed
\* twice.
C22_RepeatItem ==
    Returned("try_new_repeat_item") =>
        LET x == call.arg[1]
        IN /\ dropCount[x.id] = 1
           /\ \A i \in DOMAIN supplied :
                 supplied[i].val = x.val /\ supplied[i].id # x.id
           /\ result = "ok" =>
                 /\ View(vec) = supplied
                 /\ vec.len = call.start
                 /\ \A y \in Elems(supplied) : dropCount[y.id] = 0
           /\ result # "ok" =>
                 /\ \A i \in call.id..(nextId - 1) : dropCount[i] = 1
                 /\ IdsOf(supplied) = (call.id + 1)..(nextId - 1)
                 /\ vec = Before
                 /\ \A y \in Elems(B) : dropCount[y.id] = 0
           /\ result = "panic" => Len(supplied) = call.k - 1
           /\ result = "err" => supplied = <<>>

\* The third clone panicked: two clones were in the new Vec.
C22_Witness ==
    /\ Returned("try_new_repeat_item")
    /\ result = "panic"
    /\ call.k >= 3

\* C23: an operation returns AllocationError exactly when one of its reserve
\* requests failed; at most one request of a call fails (no retry), and the
\* step in which it fails is the operation's last: it returns the error
\* with the buffer's slots, length and capacity as that step found them, so
\* nothing is written and no caller code is run after the failure, and the
\* failure never ends in Ok.
C23_ErrorIffReserveFailed ==
    /\ [](/\ call.refused <= 1
          /\ call.refused = 1 => pc = "returned" /\ result = "err"
          /\ (pc = "returned" /\ result = "err") => call.refused = 1)
    /\ [][call'.refused > call.refused =>
             /\ vec' = vec
             /\ pc' = "returned"
             /\ result' = "err"]_vars

\* try_extend had stored two elements of its source when the reserve for
\* the third failed.
C23_Witness ==
    /\ Returned("try_extend")
    /\ result = "err"
    /\ call.refused = 1
    /\ Len(supplied) >= 3

\* The loops that fill slots under a SetLenOnDrop guard, the buffer the
\* guard of the running loop holds, and the number of slots that loop has
\* written (the splice fill follows an overwrite phase that supplied
\* index - start elements already).
GuardedLoops ==
    {"extend_from_slice_loop", "resize_loop", "resize_with_loop", "repeat_loop",
     "splice_fill"}
Guarded == IF pc = "repeat_loop" THEN remainder ELSE vec
Written ==
    IF pc = "splice_fill" THEN Len(supplied) - (index - call.start)
    ELSE Len(supplied)

\* One step of a guarded loop: an iteration, or the end of the guard's scope.
GuardStep ==
    pc \in GuardedLoops =>
        LET n == Guarded.len + Written + (Len(supplied') - Len(supplied))
        IN /\ pc' = pc => local_len' = local_len + 1
           /\ pc' # pc =>
                 IF pc = "repeat_loop"
                 THEN /\ result' = "ok" => vec'.len = n
                      /\ result' = "panic" =>
                            \A y \in Elems(supplied') : dropCount'[y.id] = 1
                 ELSE IF pc' = "returned"
                 THEN vec'.len = n
                 ELSE vec'.len = n + after_splice

\* C24: in every guarded fill loop (try_extend_from_slice, try_resize,
\* try_resize_with, the repeat literal, the splice known-remainder fill) the
\* guard's counter is the buffer's length at guard creation plus the number
\* of slots written, those slots hold the elements produced, in order, and
\* the buffer's own length is not touched while the loop runs; each
\* iteration raises the counter by one; when the loop ends, by normal exit
\* or by panic, the length written back is the length at guard creation
\* plus the number of slots fully written.
C24_GuardCountsWrittenSlots ==
    /\ [](pc \in GuardedLoops =>
            /\ local_len = Guarded.len + Written
            /\ local_len <= Guarded.cap
            /\ Range(Guarded, Guarded.len, local_len)
                   = DropN(supplied, Len(supplied) - Written))
    /\ [][GuardStep]_vars

\* The splice fill has written two of the elements its source announced and
\* the buffer's length still is what it was when the guard was made.
C24_Witness ==
    /\ pc = "splice_fill"
    /\ Written = 2
    /\ local_len = vec.len + 2
    /\ after_splice >= 1

\* C25: a try_splice_in whose replacement yields no more elements than the
\* range holds, and reports lower bound 0 when asked once the range is
\* filled, makes no reserve request that can fail: it returns Ok with the
\* capacity unchanged whatever the allocator answers; when the replacement
\* runs out after k < end - start elements, the old elements [start + k, end)
\* are removed and the tail B[end:] follows the k new elements; every old
\* element of the range is destroyed exactly once and no other.
C25_ShortReplacementNeverAllocates ==
    (/\ Returned("try_splice_in")
     /\ result # "panic"
     /\ call.total <= call.end - call.start
     /\ call.lb <= 0
     /\ call.low_bound <= 0) =>
        LET k == Len(supplied)
        IN /\ result = "ok"
           /\ call.refused = 0
           /\ vec.cap = call.cap
           /\ k = call.total
           /\ k < call.end - call.start <=> site = "drain"
           /\ View(vec) = Take(B, call.start) \o supplied \o DropN(B, call.end)
           /\ vec.len = Len(B) - (call.end - call.start) + k
           /\ \A i \in DOMAIN B :
                 dropCount[B[i].id] =
                     IF call.start < i /\ i <= call.end THEN 1 ELSE 0
           /\ \A x \in Elems(supplied) : dropCount[x.id] = 0

\* The replacement ran out one element into a range of at least three, with
\* a tail behind the range to compact.
C25_Witness ==
    /\ Returned("try_splice_in")
    /\ site = "drain"
    /\ Len(supplied) = 1
    /\ call.end - call.start >= 3
    /\ call.end < Len(B)

\* The counter value at which the running guarded loop breaks, and one
\* iteration of such a loop.
FillTarget ==
    IF pc = "splice_fill" THEN index + lower_bound
    ELSE IF pc = "extend_from_slice_loop" THEN vec.len + Len(slice)
    ELSE new_len
FillIteration ==
    pc \in GuardedLoops /\ pc' = pc =>
        /\ FillTarget' = FillTarget
        /\ FillTarget' - local_len' = (FillTarget - local_len) - 1

\* C26: a fill loop whose routine returns runs exactly target - start
\* times: try_resize_with(n, f) on a Vec of length L has called f n - L
\* times when it returns Ok, try_resize(n, v) has made n - L clones, and
\* neither calls its routine when n <= L; the splice's known-remainder fill
\* has pulled exactly lower_bound elements when it is done; while a loop
\* runs its counter is below the target and each iteration brings it one
\* closer, so the exit test is reached and never stepped over.
C26_FillLoopIterations ==
    /\ [](/\ pc \in GuardedLoops \ {"extend_from_slice_loop"} =>
                local_len < FillTarget
          /\ pc \in {"resize_loop", "resize_with_loop"} =>
                /\ new_len = call.start
                /\ Len(supplied) = local_len - Len(B)
          /\ pc = "splice_fill" => lower_bound = call.lb
          /\ (Returned("try_resize") \/ Returned("try_resize_with")) =>
                /\ Len(supplied) <= Max(call.start - Len(B), 0)
                /\ result = "ok" =>
                      /\ Len(supplied) = Max(call.start - Len(B), 0)
                      /\ vec.len = call.start
          /\ (call.op = "try_splice_in" /\ call.lb > 0 /\ pc = "try_extend") =>
                /\ Len(supplied) = Direct
                /\ source.calls = Direct
                /\ index = call.end + call.lb)
    /\ [][FillIteration]_vars

\* try_resize_with has grown a Vec that was not empty by three elements.
C26_Witness ==
    /\ Returned("try_resize_with")
    /\ result = "ok"
    /\ Len(B) >= 1
    /\ Len(supplied) = 3
    /\ call.start = Len(B) + 3

\* C27: a try_extend that returns AllocationError leaves B followed by a
\* prefix of the source's elements, in order: when the up-front reserve of
\* the lower bound fails nothing was pulled from the source and the Vec is
\* as it was; when the one-slot reserve for the m-th element fails the Vec
\* is B followed by the first m - 1 elements, and the m-th element is
\* destroyed, once, and stored nowhere; no other element is destroyed.
C27_ExtendFailsPartWay ==
    Returned("try_extend") /\ result = "err" =>
        LET m == Len(supplied)
        IN /\ site \in {"try_extend_reserve", "try_extend_push"}
           /\ site = "try_extend_reserve" =>
                 /\ m = 0
                 /\ vec = Before
           /\ site = "try_extend_push" =>
                 /\ m >= 1
                 /\ View(vec) = B \o Take(supplied, m - 1)
                 /\ vec.len = Len(B) + m - 1
                 /\ dropCount[supplied[m].id] = 1
                 /\ supplied[m].id \notin IdsOf(View(vec))
           /\ \A x \in Elems(View(vec)) : dropCount[x.id] = 0

\* The reserve for the third element failed, on a Vec that was not empty.
C27_Witness ==
    /\ Returned("try_extend")
    /\ result = "err"
    /\ site = "try_extend_push"
    /\ Len(supplied) = 3
    /\ Len(B) >= 1

\* C28: when the replacement source panics in try_splice_in's overwrite
\* phase after it produced k elements (k < end - start), the Vec has the
\* length and capacity it had before the call and holds B[0:start], the k
\* produced elements, then B[start + k:]; the k old elements that were
\* overwritten are destroyed exactly once each, every other old element is
\* in the Vec once and not destroyed, and the panic reaches the caller.
C28_PanicWhileOverwriting ==
    Returned("try_splice_in") /\ site = "overwrite_next" =>
        LET k == Len(supplied)
        IN /\ result = "panic"
           /\ k = call.k - 1
           /\ k < call.end - call.start
           /\ vec.len = Len(B)
           /\ vec.cap = call.cap
           /\ View(vec) = Take(B, call.start) \o supplied \o DropN(B, call.start + k)
           /\ \A i \in DOMAIN B :
                 dropCount[B[i].id] =
                     IF call.start < i /\ i <= call.start + k THEN 1 ELSE 0
           /\ \A x \in Elems(supplied) : dropCount[x.id] = 0
           /\ \A i, j \in DOMAIN View(vec) :
                 View(vec)[i].id = View(vec)[j].id => i = j

\* The source panicked with two of at least three range elements
\* overwritten, between a prefix and a tail.
C28_Witness ==
    /\ Returned("try_splice_in")
    /\ site = "overwrite_next"
    /\ Len(supplied) = 2
    /\ call.start >= 1
    /\ call.end < Len(B)

\* C29: when the replacement source answers, once the old range is filled,
\* a lower bound larger than the number of elements it then yields, and
\* the tail shift for that bound succeeds, try_splice_in returns neither Ok
\* nor AllocationError: next().unwrap() panics in the known-remainder fill
\* when the source runs dry.  The Vec then is B[0:start] followed by all
\* the elements the source produced; the relocated tail B[end:] is not
\* visible and not destroyed (leaked), the old range is destroyed once, and
\* len <= capacity.
C29_ShortfallPanics ==
    /\ (/\ Returned("try_splice_in")
        /\ call.lb > 0
        /\ call.total >= call.end - call.start
        /\ call.lb > call.total - (call.end - call.start)
        /\ site \notin {"move_tail_known", "fill_next"}) => site = "fill_unwrap"
    /\ (Returned("try_splice_in") /\ site = "fill_unwrap") =>
          /\ result = "panic"
          /\ call.lb > call.total - (call.end - call.start)
          /\ Len(supplied) = call.total
          /\ View(vec) = Take(B, call.start) \o supplied
          /\ vec.len = call.start + call.total
          /\ vec.len <= vec.cap
          /\ \A x \in Elems(DropN(B, call.end)) :
                dropCount[x.id] = 0 /\ x.id \notin IdsOf(View(vec))
          /\ \A i \in DOMAIN B :
                dropCount[B[i].id] =
                    IF call.start < i /\ i <= call.end THEN 1 ELSE 0
          /\ \A x \in Elems(supplied) : dropCount[x.id] = 0

\* The source announced more than the one element it had left for the
\* gap, with a prefix, an overwritten range and a tail around it.
C29_Witness ==
    /\ Returned("try_splice_in")
    /\ site = "fill_unwrap"
    /\ 0 < call.start
    /\ call.start < call.end
    /\ call.end < Len(B)
    /\ Len(supplied) = (call.end - call.start) + 1

\* w is v with the slots [at, v.len) moved up by `by`: slots [0, at) are
\* as they were, the former [at, len) is at [at + by, len + by) in the same
\* order, and the capacity holds len + by.
MovedTail(v, w, at, by) ==
    /\ Range(w, 0, at) = Range(v, 0, at)
    /\ Range(w, at + by, v.len + by) = Range(v, at, v.len)
    /\ w.cap >= v.len + by

\* The steps in which move_tail runs: try_insert (by one), the splice's
\* known-remainder phase (by the lower bound) and its last phase (by the
\* length of the collected remainder).
MoveTailStep ==
    /\ (pc = "idle" /\ call'.op = "try_insert") =>
          IF call'.refused = 1
          THEN vec' = vec /\ result' = "err"
          ELSE /\ MovedTail(vec, vec', call'.start, 1)
               /\ vec'.len = vec.len + 1
    /\ (pc = "splice_hint" /\ call'.lb > 0) =>
          IF call'.refused > call.refused
          THEN vec' = vec /\ result' = "err"
          ELSE /\ pc' = "splice_fill"
               /\ MovedTail(vec, vec', index, call'.lb)
               /\ index + after_splice' = vec.len
    /\ (pc = "splice_tail" /\ remainder.len > 0) =>
          IF call'.refused > call.refused
          THEN vec' = vec /\ result' = "err"
          ELSE /\ MovedTail(vec, vec', index, remainder.len)
               /\ vec'.len = vec.len + remainder.len

\* C30: move_tail(buffer, index, by) with index <= len, on success, leaves
\* the length as it was (the callers read or set it afterwards), leaves
\* slots [0, index) unchanged and has the former contents of [index, len)
\* at [index + by, len + by) in the same order, also when the two ranges
\* overlap, with capacity >= len + by; when the reserve fails the caller
\* returns AllocationError and no slot has moved.
C30_MoveTail == [][MoveTailStep]_vars

\* The splice has just moved a tail of at least two elements up by fewer
\* slots than it is long (the ranges overlap), behind a prefix.
C30_Witness ==
    /\ pc = "splice_fill"
    /\ local_len = index
    /\ index > 0
    /\ lower_bound >= 1
    /\ lower_bound < after_splice
    /\ Range(vec, index + lower_bound, index + lower_bound + after_splice)
          = DropN(B, call.end)

====
